---------------------------- MODULE Spec2Model ----------------------------
(***************************************************************************)
(* A model of the multi-track synthesizer backend:                         *)
(*   backend/synthesizer_backend.py  (SynthesizerBackend)                  *)
(*   backend/audio_processor.py      (AudioProcessor)                      *)
(*   backend/app.py                  (the /api/synthesize route)           *)
(*                                                                         *)
(* Conventions.                                                            *)
(*  - Times (start_time, duration) are exact rationals: a time value n     *)
(*    stands for n / TimeDen seconds.  Products such as                    *)
(*    sample_rate * duration are evaluated exactly; the rounding of        *)
(*    binary floating point is not modelled.                               *)
(*  - A Python call either returns a value, Ok(v), or raises, Raise(e).    *)
(*  - numpy arrays are sequences; array index n is sequence index n + 1.   *)
(*  - np.sin is irrational; Sin is Bhaskara's rational approximation,      *)
(*    which is exact at the multiples of a quarter cycle and at 30/150     *)
(*    degrees.                                                             *)
(***************************************************************************)
EXTENDS Integers, Sequences, FiniteSets, TLC

VARIABLES
    sample_rate,   \* SynthesizerBackend.sample_rate
    output_dir,    \* the files of SynthesizerBackend.output_dir, in creation order
    op,            \* the operation called last
    arg,           \* its arguments
    ret,           \* its outcome
    inflight       \* the process_track_input calls of the threads of the server

vars == <<sample_rate, output_dir, op, arg, ret, inflight>>

----------------------------------------------------------------------------
(* Bounds of the model *)

TimeDen == 2          \* time resolution: a time n is n / TimeDen seconds
MaxTracks == 2        \* longest track list
MaxDuration == 2      \* longest track duration, in 1/TimeDen s
MaxStart == 1         \* latest track start, in 1/TimeDen s
MaxInvocations == 2   \* process_track_input calls that may run in parallel

(* Program constants *)

Int16Max == 32767
MidiMaxVelocity == 127

----------------------------------------------------------------------------
(* Outcomes of a Python call *)

Ok(v) == [ok |-> TRUE, val |-> v]
Raise(e) == [ok |-> FALSE, err |-> e]

ValueError == "ValueError"
KeyError == "KeyError"

----------------------------------------------------------------------------
(* Arithmetic *)

Abs(x) == IF x < 0 THEN -x ELSE x

Sign(x) == IF x < 0 THEN -1 ELSE 1

\* Python's int() of the real number n / d, d > 0: truncation toward zero.
PyInt(n, d) == IF n >= 0 THEN n \div d ELSE -((-n) \div d)

\* The ceiling of n / d, d > 0.
Ceil(n, d) == -((-n) \div d)

\* round() of n / d, d > 0, n >= 0 (halves round to even, as Python's round).
Round(n, d) ==
    LET q == n \div d
        r == n % d
    IN  IF 2 * r < d THEN q
        ELSE IF 2 * r > d THEN q + 1
        ELSE IF q % 2 = 0 THEN q ELSE q + 1

RECURSIVE GCD(_, _)
GCD(a, b) == IF b = 0 THEN a ELSE GCD(b, a % b)

\* floor(a * b / c) for a, b >= 0, c > 0, without forming a * b (which may
\* exceed 32 bits): a is split at c, the remainder in base 256.
MulDiv(a, b, c) ==
    LET qa == a \div c
        ra == a % c
        b1 == b \div 256
        b0 == b % 256
        q1 == (ra * b1) \div c
        r1 == (ra * b1) % c
    IN  qa * b + q1 * 256 + ((r1 * 256 + ra * b0) \div c)

SetMax(S) == CHOOSE x \in S : \A y \in S : y <= x

Range(s) == {s[i] : i \in DOMAIN s}

\* numpy's astype(np.int16) of a number already truncated to an integer:
\* the low 16 bits, as a signed value.
AsInt16(x) ==
    LET m == x % 65536
    IN  IF m >= 32768 THEN m - 65536 ELSE m

----------------------------------------------------------------------------
(* np.sin *)

\* sin(2 pi P / Q) for integers P, Q > 0, as a fraction <<N, D>>, D > 0:
\* the phase is reduced to a half cycle u = a / b in [0, 1] with its sign, and
\* sin(pi u) ~ 16 u (1 - u) / (5 - 4 u (1 - u)).
SinOfHalfCycle(a, b, sign) ==
    <<sign * 16 * a * (b - a), 5 * b * b - 4 * a * (b - a)>>

SinReduced(a, b, sign) ==
    SinOfHalfCycle(a \div GCD(b, a), b \div GCD(b, a), sign)

SinOfPhase(p, Q) ==
    IF 2 * p > Q THEN SinReduced(2 * p - Q, Q, -1) ELSE SinReduced(2 * p, Q, 1)

Sin(P, Q) == SinOfPhase(P % Q, Q)

----------------------------------------------------------------------------
(* SynthesizerBackend.generate_sine_wave *)

\* int(self.sample_rate * duration)
ToneSamples(duration) == PyInt(sample_rate * duration, TimeDen)

\* amplitude * s cast to int16 (a cast truncates toward zero), for the
\* amplitude amplitude[1] / amplitude[2] and the sine s[1] / s[2].
Amplify(amplitude, s) ==
    AsInt16(Sign(s[1]) * MulDiv(amplitude[1], Abs(s[1]), amplitude[2] * s[2]))

\* Sample n of amplitude * np.sin(2 * np.pi * frequency * t), cast to int16,
\* where t = np.linspace(0, duration, num, False), so t[n] = n * duration / num.
ToneSample(frequency, duration, amplitude, num, n) ==
    Amplify(amplitude, Sin(frequency * n * duration, TimeDen * num))

Tone(frequency, duration, amplitude, num) ==
    IF num < 0
    THEN Raise(ValueError)     \* np.linspace: negative number of samples
    ELSE Ok([n \in 1..num |->
                ToneSample(frequency, duration, amplitude, num, n - 1)])

generate_sine_wave(frequency, duration, amplitude) ==
    Tone(frequency, duration, amplitude, ToneSamples(duration))

----------------------------------------------------------------------------
(* SynthesizerBackend.generate_multi_track *)

TrackKeys == {"frequency", "duration", "velocity", "start_time"}

\* max(t['start_time'] + t['duration'] for t in tracks)
TotalDuration(tracks) ==
    SetMax({tracks[i].start_time + tracks[i].duration : i \in DOMAIN tracks})

\* int(self.sample_rate * total_duration)
TotalSamples(tracks) == PyInt(sample_rate * TotalDuration(tracks), TimeDen)

\* int(track['start_time'] * self.sample_rate)
StartSample(track) == PyInt(track.start_time * sample_rate, TimeDen)

\* self.generate_sine_wave(frequency, duration, 32767 * velocity)
\* with velocity = track['velocity'] / 127.0
TrackTone(track) ==
    generate_sine_wave(track.frequency, track.duration,
                       <<Int16Max * track.velocity, MidiMaxVelocity>>)

\* mixed[start_sample:end_sample] += samples: the slice is clipped to the
\* array, and samples must have its length (or length 1, which broadcasts).
AddSlice(mixed, start_sample, samples) ==
    LET total == Len(mixed)
        lo == IF start_sample < total THEN start_sample ELSE total
        e == start_sample + Len(samples)
        hi == IF e < total THEN e ELSE total
        width == hi - lo
    IN  IF Len(samples) = width
        THEN Ok([i \in 1..total |->
                   IF lo < i /\ i <= hi
                   THEN mixed[i] + samples[i - lo] ELSE mixed[i]])
        ELSE IF Len(samples) = 1
        THEN Ok([i \in 1..total |->
                   IF lo < i /\ i <= hi
                   THEN mixed[i] + samples[1] ELSE mixed[i]])
        ELSE Raise(ValueError)     \* operands could not be broadcast together

\* The loop over the tracks, from track i on: the tone of track i is
\* generated (MixFrom), added to the mix (MixTone), and the loop goes on
\* (MixNext).
RECURSIVE MixFrom(_, _, _)

MixNext(added, tracks, i) ==
    IF ~added.ok THEN added ELSE MixFrom(added.val, tracks, i + 1)

MixTone(mixed, tone, tracks, i) ==
    IF ~tone.ok THEN tone
    ELSE MixNext(AddSlice(mixed, StartSample(tracks[i]), tone.val), tracks, i)

MixFrom(mixed, tracks, i) ==
    IF i > Len(tracks) THEN Ok(mixed)
    ELSE MixTone(mixed, TrackTone(tracks[i]), tracks, i)

\* max_val = np.max(np.abs(mixed))
PeakAbs(mixed) == SetMax({Abs(mixed[i]) : i \in DOMAIN mixed})

\* A variant that scales every mix with a sound in it up to full scale.
NeedsScaling_always(max_val) == max_val > 0

\* if max_val > 32767
NeedsScaling(max_val) == max_val > Int16Max

\* (mixed / max_val) * 32767, one sample, truncated by the cast that follows
Scaled(x, max_val) == Sign(x) * MulDiv(Abs(x), Int16Max, max_val)

\* The normalisation and mixed.astype(np.int16).
NormaliseBy(mixed, max_val) ==
    [i \in DOMAIN mixed |->
        AsInt16(IF NeedsScaling(max_val) THEN Scaled(mixed[i], max_val)
                ELSE mixed[i])]

Normalise(mixed) == NormaliseBy(mixed, PeakAbs(mixed))

\* The steps after the loop.
FinishMix(mixed) ==
    IF ~mixed.ok THEN mixed
    ELSE IF mixed.val = <<>>
    THEN Raise(ValueError)         \* np.max of a zero-size array
    ELSE Ok(Normalise(mixed.val))

\* mixed = np.zeros(total_samples, dtype=np.float32), and the loop
MixInto(total_samples, tracks) ==
    IF total_samples < 0
    THEN Raise(ValueError)         \* np.zeros: negative dimensions
    ELSE MixFrom([i \in 1..total_samples |-> 0], tracks, 1)

generate_multi_track(tracks) ==
    IF tracks = <<>>
    THEN Raise(ValueError)         \* max() arg is an empty sequence
    ELSE IF \E i \in DOMAIN tracks : ~(TrackKeys \subseteq DOMAIN tracks[i])
    THEN Raise(KeyError)           \* t['start_time'], track['frequency'], ...
    ELSE FinishMix(MixInto(TotalSamples(tracks), tracks))

----------------------------------------------------------------------------
(* scipy.signal.find_peaks(magnitude, height=0.1, distance=50), as called by *)
(* compute_fft, and the sort that follows it.  x is the magnitude sequence   *)
(* in any order-preserving integer encoding, height the threshold in the     *)
(* same encoding.  Bins are array indices: bin k is x[k + 1].                *)

PeakHeightDen == 10       \* height = 0.1 = 1 / PeakHeightDen
PeakDistance == 50
TopPeaks == 10

\* The scan that extends a plateau starting at index i: the first index from a
\* on, short of the last sample, whose value differs from x[i].
RECURSIVE PlateauAhead(_, _, _)
PlateauAhead(x, i, a) ==
    IF a < Len(x) /\ x[a] = x[i] THEN PlateauAhead(x, i, a + 1) ELSE a

\* The local maxima (the first and the last sample are never one); a flat
\* maximum counts once, at the middle of its plateau, rounded down.
LocalMaxima(x) ==
    {(i + PlateauAhead(x, i, i + 1) - 3) \div 2 :
        i \in {j \in 2..(Len(x) - 1) :
                  /\ x[j - 1] < x[j]
                  /\ x[PlateauAhead(x, j, j + 1)] < x[j]}}

\* height=0.1: the peaks of at least that height
HeightOk(v, height) == v >= height

\* p is taken before q: by magnitude, the larger bin first among equals (a
\* stable ascending argsort read from its end).
Before(x, p, q) == x[p + 1] > x[q + 1] \/ (x[p + 1] = x[q + 1] /\ p > q)

Foremost(x, S) == CHOOSE p \in S : \A q \in S \ {p} : Before(x, p, q)

\* distance=50: peaks are taken by descending magnitude, and each one taken
\* removes the peaks closer than the distance on both sides.
RECURSIVE SelectFrom(_, _, _)
SelectFrom(x, todo, keep) ==
    IF todo = {} THEN keep
    ELSE LET j == Foremost(x, todo)
         IN  IF j \notin keep THEN SelectFrom(x, todo \ {j}, keep)
             ELSE SelectFrom(x, todo \ {j},
                     {k \in keep : k = j \/ Abs(k - j) >= PeakDistance})

\* A variant that takes the peaks from left to right: a peak is kept when it
\* is at least the distance away from the peak kept before it.
RECURSIVE ScanFrom(_, _, _)
ScanFrom(todo, last, keep) ==
    IF todo = {} THEN keep
    ELSE LET j == CHOOSE p \in todo : \A q \in todo : p <= q
         IN  IF last >= 0 /\ j - last < PeakDistance
             THEN ScanFrom(todo \ {j}, last, keep)
             ELSE ScanFrom(todo \ {j}, j, keep \cup {j})

SelectByDistance_leftToRight(x, peaks) == ScanFrom(peaks, -1, {})

SelectByDistance(x, peaks) == SelectFrom(x, peaks, peaks)

\* np.argsort(peak_mags)[::-1]
RECURSIVE SortByMagnitude(_, _)
SortByMagnitude(x, S) ==
    IF S = {} THEN <<>>
    ELSE LET j == Foremost(x, S)
         IN  <<j>> \o SortByMagnitude(x, S \ {j})

\* [:10]
Top(s) == IF Len(s) <= TopPeaks THEN s ELSE SubSeq(s, 1, TopPeaks)

\* The bins of the peaks compute_fft reports, in its order.
FindPeaks(x, height) ==
    Top(SortByMagnitude(x,
          SelectByDistance(x,
             {p \in LocalMaxima(x) : HeightOk(x[p + 1], height)})))

----------------------------------------------------------------------------
(* SynthesizerBackend.compute_fft *)

\* The lengths N whose DFT has rational squared magnitudes: the twiddle
\* factors are 4th or 6th roots of unity.
DftSizes == {1, 2, 3, 4, 6}

\* 2 cos(2 pi j / N)
Cos2(N, j) ==
    CASE N = 1 -> 2
      [] N = 2 -> <<2, -2>>[j + 1]
      [] N = 3 -> <<2, -1, -1>>[j + 1]
      [] N = 4 -> <<2, 0, -2, 0>>[j + 1]
      [] N = 6 -> <<2, 1, -1, -2, -1, 1>>[j + 1]

\* 2 sin(2 pi j / N) / sqrt(SinRadicand(N))
Sin2(N, j) ==
    CASE N = 1 -> 0
      [] N = 2 -> 0
      [] N = 3 -> <<0, 1, -1>>[j + 1]
      [] N = 4 -> <<0, 2, 0, -2>>[j + 1]
      [] N = 6 -> <<0, 1, 1, 0, -1, -1>>[j + 1]

SinRadicand(N) == IF N \in {3, 6} THEN 3 ELSE 1

RECURSIVE SumTo(_, _)
SumTo(f, n) == IF n = 0 THEN 0 ELSE f[n] + SumTo(f, n - 1)

\* 4 |X[k]|^2 from 2 Re X[k] and 2 Im X[k] / sqrt(SinRadicand(N))
DftPower(re, im, N) == re * re + SinRadicand(N) * im * im

\* 4 |X[k]|^2 for X = fft(samples).
SqMag(samples, k) ==
    DftPower(
        SumTo([n \in DOMAIN samples |->
                 samples[n] * Cos2(Len(samples), (k * (n - 1)) % Len(samples))],
              Len(samples)),
        SumTo([n \in DOMAIN samples |->
                 samples[n] * Sin2(Len(samples), (k * (n - 1)) % Len(samples))],
              Len(samples)),
        Len(samples))

\* One entry of magnitude / np.max(magnitude): the number sqrt(sq / of), and
\* NaN (0 / 0) when of = 0.
IsNaN(m) == m.of = 0
IsZero(m) == m.of > 0 /\ m.sq = 0
IsOne(m) == m.of > 0 /\ m.sq = m.of
InUnitInterval(m) == m.of > 0 /\ 0 <= m.sq /\ m.sq <= m.of

\* magnitude = magnitude / np.max(magnitude)
NormaliseMagnitude(sq, top) == [sq |-> sq, of |-> top]

\* compute_fft raises exactly when the one-sided spectrum is empty.
FftRaises(samples) == Len(samples) \div 2 = 0

\* The result dictionary, for the squared magnitudes sq of the one-sided
\* spectrum of N samples, their maximum top and the peak bins.
FftData(N, sq, top, peaks) ==
    [frequencies |-> [k \in DOMAIN sq |-> <<(k - 1) * sample_rate, N>>],
     magnitude |-> [k \in DOMAIN sq |-> NormaliseMagnitude(sq[k], top)],
     peak_frequencies |-> [i \in DOMAIN peaks |-> <<peaks[i] * sample_rate, N>>],
     peak_magnitudes |->
         [i \in DOMAIN peaks |-> NormaliseMagnitude(sq[peaks[i] + 1], top)]]

\* The peaks of the normalised spectrum.  With top = 0 every magnitude is
\* NaN, which compares false with everything: no peak is found.
SpectrumPeaks(sq, top) ==
    IF top = 0 THEN <<>>
    ELSE FindPeaks([k \in DOMAIN sq |-> PeakHeightDen * PeakHeightDen * sq[k]], top)

Analyse(N, sq, top) == FftData(N, sq, top, SpectrumPeaks(sq, top))

Spectrum(N, sq) == Analyse(N, sq, SetMax(Range(sq)))

compute_fft(samples) ==
    IF Len(samples) = 0
    THEN Raise(ValueError)     \* scipy.fft.fft: invalid number of data points (0)
    ELSE IF Len(samples) \div 2 = 0
    THEN Raise(ValueError)     \* np.max of a zero-size array
    ELSE Ok(Spectrum(Len(samples),
                     [k \in 1..(Len(samples) \div 2) |-> SqMag(samples, k - 1)]))

----------------------------------------------------------------------------
(* SynthesizerBackend.verify_frequency_accuracy *)

\* A frequency is a fraction <<n, d>>, d > 0; a tolerance t is t / 1000.
TolDen == 1000

\* |f - expected|, over the denominator f[2]
Distance(f, expected) == Abs(f[1] - expected * f[2])

\* a is nearer to expected than b
Nearer(a, b, expected) ==
    Distance(a, expected) * b[2] < Distance(b, expected) * a[2]

\* np.argmin(np.abs(peak_freqs - expected_freq)): the first index of the
\* least distance.
ClosestIdx(peak_freqs, expected) ==
    CHOOSE i \in DOMAIN peak_freqs :
        /\ \A j \in DOMAIN peak_freqs :
              ~Nearer(peak_freqs[j], peak_freqs[i], expected)
        /\ \A j \in 1..(i - 1) :
              Nearer(peak_freqs[i], peak_freqs[j], expected)

\* A variant with a strict comparison, error < tolerance.
WithinTolerance_strict(detected, expected, tolerance) ==
    IF expected > 0
    THEN Distance(detected, expected) * TolDen < tolerance * expected * detected[2]
    ELSE expected < 0

\* error <= tolerance, for error = abs(detected - expected) / expected: a
\* negative expected_freq makes the error negative (or -0.0); a zero one makes
\* it inf or NaN, and the comparison false.
WithinTolerance(detected, expected, tolerance) ==
    IF expected > 0
    THEN Distance(detected, expected) * TolDen <= tolerance * expected * detected[2]
    ELSE IF expected < 0
    THEN -(Distance(detected, expected) * TolDen)
            <= tolerance * (-expected) * detected[2]
    ELSE FALSE

\* The returned dictionary; error * 100 and tolerance * 100 as fractions.
Verification(detected, expected, tolerance) ==
    [expected_frequency |-> expected,
     detected_frequency |-> detected,
     error_percent |-> <<100 * Distance(detected, expected), detected[2] * expected>>,
     is_accurate |-> WithinTolerance(detected, expected, tolerance),
     tolerance_percent |-> <<100 * tolerance, TolDen>>]

\* The lines after compute_fft.
VerifyPeaks(peak_freqs, expected, tolerance) ==
    IF peak_freqs = <<>>
    THEN Raise(ValueError)     \* argmin of an empty sequence
    ELSE Ok(Verification(peak_freqs[ClosestIdx(peak_freqs, expected)],
                         expected, tolerance))

VerifyFft(fft_data, expected, tolerance) ==
    IF ~fft_data.ok THEN fft_data
    ELSE VerifyPeaks(fft_data.val.peak_frequencies, expected, tolerance)

verify_frequency_accuracy(samples, expected, tolerance) ==
    VerifyFft(compute_fft(samples), expected, tolerance)

----------------------------------------------------------------------------
(* AudioProcessor._get_dominant_frequency                                    *)
(*                                                                           *)
(* A segment is its length in samples and the shape of the autocorrelation   *)
(* of its Hann-windowed samples, np.correlate(windowed, windowed, 'full')    *)
(* from the zero lag on:                                                     *)
(*   "silent"  all samples zero: the zero-lag value is 0 and the             *)
(*             normalisation autocorr / autocorr[0] yields NaN everywhere;   *)
(*   "steady"  slowly varying samples: strictly decreasing in the lag;       *)
(*   "pulses"  a pulse train of the given period: positive at the multiples  *)
(*             of the period and zero in between.                            *)
(* The two-point Hann window is [0, 0], so a segment of length 2 is silent   *)
(* whatever its samples.  Frequencies are fractions <<n, d>>; 0 is <<0, 1>>. *)

MaxFrequency == 2000      \* min_period = sr // 2000
MinFrequency == 50        \* max_period = sr // 50

Silent == [kind |-> "silent", period |-> 0]
Steady == [kind |-> "steady", period |-> 0]
Pulses(p) == [kind |-> "pulses", period |-> p]

IsSilent(segment) == segment.shape.kind = "silent" \/ segment.len = 2

\* autocorr[k], up to the positive factor 1 / autocorr[0]
AutocorrAt(segment, k) ==
    IF segment.shape.kind = "steady" THEN segment.len - k
    ELSE IF k % segment.shape.period = 0 THEN segment.len - k ELSE 0

\* np.argmax over the lags lo..hi: the first lag of the greatest value (the
\* search is halved, which finds the same lag as a scan from the left).
RECURSIVE ArgMaxLag(_, _, _)
ArgMaxLag(segment, lo, hi) ==
    IF lo = hi THEN lo
    ELSE LET mid == (lo + hi) \div 2
             a == ArgMaxLag(segment, lo, mid)
             b == ArgMaxLag(segment, mid + 1, hi)
         IN  IF AutocorrAt(segment, b) > AutocorrAt(segment, a) THEN b ELSE a

\* np.argmax(autocorr[min_period:max_period]); of an all-NaN slice it is 0
ArgMaxSlice(segment, min_period, max_period) ==
    IF IsSilent(segment) THEN 0
    ELSE ArgMaxLag(segment, min_period, max_period - 1) - min_period

MinPeriod(sr) == sr \div MaxFrequency

\* max_period = sr // 50, and len(autocorr) - 1 if that exceeds len(autocorr)
MaxPeriod(segment, sr) ==
    IF sr \div MinFrequency > segment.len
    THEN segment.len - 1 ELSE sr \div MinFrequency

\* frequency = sr / peak_idx
PeakFrequency(sr, peak_idx) == IF peak_idx > 0 THEN <<sr, peak_idx>> ELSE <<0, 1>>

get_dominant_frequency(segment, sr) ==
    IF segment.len < 2 THEN <<0, 1>>
    ELSE IF MinPeriod(sr) >= MaxPeriod(segment, sr) THEN <<0, 1>>
    ELSE PeakFrequency(sr,
            MinPeriod(sr)
              + ArgMaxSlice(segment, MinPeriod(sr), MaxPeriod(segment, sr)))

----------------------------------------------------------------------------
(* AudioProcessor._extract_tracks                                            *)
(*                                                                           *)
(* The recording y is its length n_samples and, per onset, the shape of the  *)
(* segment that starts there.  Onsets are the frames librosa detected:       *)
(* onset_times = frames * hop_length / sr, so onset_time * sr is the sample  *)
(* frames * hop_length.  Times are fractions <<samples, sr>>.                *)

HopLength == 512          \* librosa's default hop_length
DefaultVelocity == 100

OnsetSample(onset_frames, i) == onset_frames[i] * HopLength

\* A variant in which every segment runs to the end of the audio.
EndSample_toEnd(n_samples, onset_frames, i) == n_samples

\* end_time: the next onset, or the end of the audio
EndSample(n_samples, onset_frames, i) ==
    IF i < Len(onset_frames) THEN OnsetSample(onset_frames, i + 1) ELSE n_samples

\* y[start_sample:end_sample], a slice clipped to the array
SegmentLen(n_samples, onset_frames, i) ==
    LET lo == IF OnsetSample(onset_frames, i) < n_samples
              THEN OnsetSample(onset_frames, i) ELSE n_samples
        hi == IF EndSample(n_samples, onset_frames, i) < n_samples
              THEN EndSample(n_samples, onset_frames, i) ELSE n_samples
    IN  IF hi > lo THEN hi - lo ELSE 0

SegmentFrequency(n_samples, sr, onset_frames, shapes, i) ==
    get_dominant_frequency(
        [len |-> SegmentLen(n_samples, onset_frames, i), shape |-> shapes[i]], sr)

\* if frequency > 0: tracks.append(...)
Emit(n_samples, sr, onset_frames, i, frequency) ==
    IF frequency[1] > 0
    THEN <<[frequency |-> frequency,
            duration |-> <<EndSample(n_samples, onset_frames, i)
                             - OnsetSample(onset_frames, i), sr>>,
            velocity |-> DefaultVelocity,
            startTime |-> <<OnsetSample(onset_frames, i), sr>>]>>
    ELSE <<>>

\* The loop over the onsets, from onset i on.
RECURSIVE ExtractFrom(_, _, _, _, _)
ExtractFrom(n_samples, sr, onset_frames, shapes, i) ==
    IF i > Len(onset_frames) THEN <<>>
    ELSE Emit(n_samples, sr, onset_frames, i,
              SegmentFrequency(n_samples, sr, onset_frames, shapes, i))
         \o ExtractFrom(n_samples, sr, onset_frames, shapes, i + 1)

extract_tracks(n_samples, sr, onset_frames, shapes) ==
    ExtractFrom(n_samples, sr, onset_frames, shapes, 1)

----------------------------------------------------------------------------
(* SynthesizerBackend.save_wav and process_track_input, and the             *)
(* /api/synthesize route of app.py.                                          *)
(*                                                                           *)
(* output_dir maps the number N of each file output_N.wav to its samples.    *)
(* A JSON object is a record.  The result of process_track_input is given    *)
(* without graph_data and fft_data, which are compute_fft of the samples:    *)
(* only whether compute_fft raises is kept.                                  *)

\* filename = f"output_{len(os.listdir(self.output_dir))}.wav"
NextFileName(dir) == Cardinality(DOMAIN dir)

\* wavfile.write(str(output_path), self.sample_rate, samples)
save_wav(dir, filename, samples) ==
    [n \in (DOMAIN dir) \cup {filename} |->
        IF n = filename THEN samples ELSE dir[n]]

\* track_data.get('tracks', [])
GetTracks(track_data) ==
    IF "tracks" \in DOMAIN track_data THEN track_data.tracks ELSE <<>>

Failure(e) == [success |-> FALSE, error |-> e]

\* The steps after generate_multi_track.
SaveAndAnalyse(dir, samples) ==
    IF ~samples.ok
    THEN [result |-> Failure(samples.err), dir |-> dir]
    ELSE IF FftRaises(samples.val)
    THEN [result |-> Failure(ValueError),
          dir |-> save_wav(dir, NextFileName(dir), samples.val)]
    ELSE [result |-> [success |-> TRUE,
                      wav_file |-> NextFileName(dir),
                      duration |-> <<Len(samples.val), sample_rate>>,
                      sample_count |-> Len(samples.val)],
          dir |-> save_wav(dir, NextFileName(dir), samples.val)]

\* The result and the directory that process_track_input leaves.
process_track_input(dir, track_data) ==
    SaveAndAnalyse(dir, generate_multi_track(GetTracks(track_data)))

\* if result['success']: 200, else 400
Response(done) ==
    [status |-> IF done.result.success THEN 200 ELSE 400,
     body |-> done.result, dir |-> done.dir]

\* synthesize(): the response and the directory it leaves.
synthesize(dir, data) ==
    IF data = <<>> \/ "tracks" \notin DOMAIN data
    THEN [status |-> 400, body |-> [error |-> "Missing tracks in request"],
          dir |-> dir]
    ELSE Response(process_track_input(dir, data))

----------------------------------------------------------------------------
(* Inputs *)

SampleRates == {0, 3, 4}
Frequencies == {1, 2}          \* generate_sine_wave alone
TrackFrequencies == {1}
Velocities == {0, 63, 127}

Tracks ==
    [frequency : TrackFrequencies, duration : 1..MaxDuration,
     velocity : Velocities, start_time : 0..MaxStart]

TrackLists == UNION {[1..n -> Tracks] : n \in 0..MaxTracks}

\* Sample buffers short enough for an exact DFT.
SampleValues == {-1, 0, 2}
Buffers == UNION {[1..n -> SampleValues] : n \in DftSizes \cup {0}}

\* Normalised magnitude sequences, in thousandths (the maximum is 1000).
MagScale == 1000
MaxBins == 5          \* longest magnitude sequence enumerated in full
MaxTeeth == 12        \* most peaks of a comb spectrum
MagValues == {0, 50, 100, MagScale}
DenseSpectra ==
    {x \in UNION {[1..n -> MagValues] : n \in 1..MaxBins} : MagScale \in Range(x)}

\* A comb: n teeth, gap bins apart, from bin 1 on, zero in between.
CombGaps == {2, 49, 50, 51}
CombShapes == {"flat", "down", "up", "alternating", "faint"}
Tooth(shape, n, i) ==
    CASE shape = "flat" -> MagScale
      [] shape = "down" -> MagScale - 50 * i
      [] shape = "up" -> MagScale - 50 * (n - 1 - i)
      [] shape = "alternating" -> IF i % 2 = 0 THEN MagScale ELSE 400
      [] shape = "faint" -> IF i = 0 THEN MagScale ELSE 50
Comb(shape, n, gap) ==
    [b \in 1..((n - 1) * gap + 3) |->
        IF (b - 2) % gap = 0 THEN Tooth(shape, n, (b - 2) \div gap) ELSE 0]
CombSpectra ==
    {Comb(shape, n, gap) : shape \in CombShapes, n \in 1..MaxTeeth, gap \in CombGaps}

Spectra == DenseSpectra \cup CombSpectra

\* Peak lists, expected frequencies (Hz) and tolerances (thousandths).
MaxPeaks == 3
PeakFreqs == {100, 102, 430, 440, 450}
PeakLists == UNION {[1..n -> {<<f, 1>> : f \in PeakFreqs}] : n \in 0..MaxPeaks}
ExpectedFreqs == {100, 440, -440}
Tolerances == {0, 20, 23}

\* Recordings: the sample rate of the AudioProcessor, the detected onset
\* frames (strictly increasing, inside the recording), the samples after the
\* last onset, and the shape of each segment.
MaxOnsets == 2
ProcRates == {1000, 2000, 8000, 44100}
OnsetFrames == {0, 1, 2}
Tails == {0, 1, 2, 23, 24, 900}
Shapes == {Silent, Steady, Pulses(30), Pulses(881)}
OnsetLists ==
    {f \in UNION {[1..n -> OnsetFrames] : n \in 0..MaxOnsets} :
        \A i \in 1..(Len(f) - 1) : f[i] < f[i + 1]}
Recordings ==
    {[sr |-> sr, onset_frames |-> f, shapes |-> sh,
      n_samples |-> (IF f = <<>> THEN 0 ELSE f[Len(f)] * HopLength) + tail] :
        sr \in ProcRates, tail \in Tails,
        f \in OnsetLists, sh \in UNION {[1..n -> Shapes] : n \in 0..MaxOnsets}}

\* Requests to the service: a track list of at most one track at full
\* velocity, or a JSON object without tracks.
MaxFiles == 2
ServiceTracks == {t \in Tracks : t.velocity = MidiMaxVelocity}
ServiceTrackLists == {<<>>} \cup {<<t>> : t \in ServiceTracks}
Requests ==
    {[tracks |-> l] : l \in ServiceTrackLists} \cup {[filename |-> "song.wav"], <<>>}

\* The calls of process_track_input that the threads of the server may run
\* at the same time, and a call that has not started.
Invocations == 1..MaxInvocations
NotStarted ==
    [pc |-> "idle", track_data |-> <<>>, samples |-> <<>>, filename |-> -1,
     result |-> <<>>]

----------------------------------------------------------------------------
(* The state machine *)

Init ==
    /\ sample_rate \in SampleRates
    /\ output_dir = <<>>
    /\ op = "init"
    /\ arg = <<>>
    /\ ret = <<>>
    /\ inflight = [i \in Invocations |-> NotStarted]

\* The core operations are pure functions of their arguments and of
\* sample_rate: a behaviour is one call on the constructed backend.
Idle == op = "init"

GenerateSineWave ==
    /\ Idle
    /\ \E f \in {-1, 0} \cup Frequencies, d \in -1..MaxDuration,
       a \in {Int16Max, 16384} :
        /\ op' = "generate_sine_wave"
        /\ arg' = [frequency |-> f, duration |-> d, amplitude |-> a]
        /\ ret' = generate_sine_wave(f, d, <<a, 1>>)
        /\ UNCHANGED <<sample_rate, output_dir, inflight>>

GenerateMultiTrack ==
    /\ Idle
    /\ \E tracks \in TrackLists :
        /\ op' = "generate_multi_track"
        /\ arg' = [tracks |-> tracks]
        /\ ret' = generate_multi_track(tracks)
        /\ UNCHANGED <<sample_rate, output_dir, inflight>>

ComputeFFT ==
    /\ Idle
    /\ \E samples \in Buffers :
        /\ op' = "compute_fft"
        /\ arg' = [samples |-> samples]
        /\ ret' = compute_fft(samples)
        /\ UNCHANGED <<sample_rate, output_dir, inflight>>

\* The peak extraction of compute_fft on a given normalised spectrum.
FindPeaksCall ==
    /\ Idle
    /\ \E x \in Spectra :
        /\ op' = "find_peaks"
        /\ arg' = [magnitude |-> x]
        /\ ret' = Ok(FindPeaks(x, MagScale \div PeakHeightDen))
        /\ UNCHANGED <<sample_rate, output_dir, inflight>>

VerifyFrequencyAccuracy ==
    /\ Idle
    /\ \E samples \in Buffers, e \in {1, 2}, t \in {20, 200} :
        /\ op' = "verify_frequency_accuracy"
        /\ arg' = [samples |-> samples, expected_freq |-> e, tolerance |-> t]
        /\ ret' = verify_frequency_accuracy(samples, e, t)
        /\ UNCHANGED <<sample_rate, output_dir, inflight>>

\* The verification of verify_frequency_accuracy on a given peak list.
VerifyPeaksCall ==
    /\ Idle
    /\ \E peaks \in PeakLists, e \in ExpectedFreqs, t \in Tolerances :
        /\ op' = "verify_peaks"
        /\ arg' = [peak_freqs |-> peaks, expected_freq |-> e, tolerance |-> t]
        /\ ret' = VerifyPeaks(peaks, e, t)
        /\ UNCHANGED <<sample_rate, output_dir, inflight>>

ExtractTracks ==
    /\ Idle
    /\ \E y \in Recordings :
        /\ Len(y.shapes) = Len(y.onset_frames)
        /\ op' = "extract_tracks"
        /\ arg' = y
        /\ ret' = Ok(extract_tracks(y.n_samples, y.sr, y.onset_frames, y.shapes))
        /\ UNCHANGED <<sample_rate, output_dir, inflight>>

\* The round trip: the tracks extracted from a recording are handed to the
\* signal generator.
Resynthesize ==
    /\ Idle
    /\ \E y \in Recordings :
        /\ Len(y.shapes) = Len(y.onset_frames)
        /\ \E tracks \in {extract_tracks(y.n_samples, y.sr, y.onset_frames, y.shapes)} :
               /\ op' = "resynthesize"
               /\ arg' = [tracks |-> tracks]
               /\ ret' = generate_multi_track(tracks)
        /\ UNCHANGED <<sample_rate, output_dir, inflight>>

Next ==
    \/ GenerateSineWave
    \/ GenerateMultiTrack
    \/ ComputeFFT
    \/ FindPeaksCall
    \/ VerifyFrequencyAccuracy
    \/ VerifyPeaksCall
    \/ ExtractTracks
    \/ Resynthesize

Spec == Init /\ [][Next]_vars

----------------------------------------------------------------------------
(* The service: requests handled one after the other *)

ProcessTrackInput ==
    /\ NextFileName(output_dir) < MaxFiles
    /\ \E track_data \in Requests :
        \E done \in {process_track_input(output_dir, track_data)} :
            /\ op' = "process_track_input"
            /\ arg' = track_data
            /\ ret' = done.result
            /\ output_dir' = done.dir
            /\ UNCHANGED <<sample_rate, inflight>>

Synthesize ==
    /\ NextFileName(output_dir) < MaxFiles
    /\ \E data \in Requests :
        \E done \in {synthesize(output_dir, data)} :
            /\ op' = "synthesize"
            /\ arg' = data
            /\ ret' = [status |-> done.status, body |-> done.body]
            /\ output_dir' = done.dir
            /\ UNCHANGED <<sample_rate, inflight>>

NextService ==
    \/ ProcessTrackInput
    \/ Synthesize

SpecService == Init /\ [][NextService]_vars

----------------------------------------------------------------------------
(* The service under parallel requests.  The development server of app.py   *)
(* handles each request in a thread of its own, and all threads call          *)
(* process_track_input on the one backend object.  A call takes four steps;   *)
(* the directory is read in the second and written in the third, and the      *)
(* steps of different calls interleave freely.                                *)

\* The result dictionary (without graph_data and fft_data) of a call that
\* saved samples under filename.
Result(filename, samples) ==
    IF FftRaises(samples)
    THEN Failure(ValueError)
    ELSE [success |-> TRUE,
          wav_file |-> filename,
          duration |-> <<Len(samples), sample_rate>>,
          sample_count |-> Len(samples)]

\* tracks = track_data.get('tracks', []); samples = generate_multi_track(tracks)
\* A call whose generation raises ends with the failure.
Generated(track_data, samples) ==
    IF samples.ok
    THEN [pc |-> "generated", track_data |-> track_data, samples |-> samples.val,
          filename |-> -1, result |-> <<>>]
    ELSE [pc |-> "done", track_data |-> track_data, samples |-> <<>>,
          filename |-> -1, result |-> Failure(samples.err)]

Generate(i) ==
    /\ inflight[i].pc = "idle"
    /\ \E track_data \in {[tracks |-> l] : l \in ServiceTrackLists} :
          inflight' = [inflight EXCEPT ![i] =
              Generated(track_data, generate_multi_track(GetTracks(track_data)))]
    /\ UNCHANGED <<sample_rate, output_dir, op, arg, ret>>

\* filename = f"output_{len(os.listdir(self.output_dir))}.wav"
ChooseFileName(i) ==
    /\ inflight[i].pc = "generated"
    /\ inflight' = [inflight EXCEPT ![i].pc = "named",
                                    ![i].filename = NextFileName(output_dir)]
    /\ UNCHANGED <<sample_rate, output_dir, op, arg, ret>>

\* wav_path = self.save_wav(samples, filename)
SaveWav(i) ==
    /\ inflight[i].pc = "named"
    /\ output_dir' = save_wav(output_dir, inflight[i].filename, inflight[i].samples)
    /\ inflight' = [inflight EXCEPT ![i].pc = "saved"]
    /\ UNCHANGED <<sample_rate, op, arg, ret>>

\* graph_data, fft_data and the result, or the failure of compute_fft
Return(i) ==
    /\ inflight[i].pc = "saved"
    /\ inflight' = [inflight EXCEPT
          ![i].pc = "done",
          ![i].result = Result(inflight[i].filename, inflight[i].samples)]
    /\ UNCHANGED <<sample_rate, output_dir, op, arg, ret>>

NextParallel ==
    \/ \E i \in Invocations : Generate(i)
    \/ \E i \in Invocations : ChooseFileName(i)
    \/ \E i \in Invocations : SaveWav(i)
    \/ \E i \in Invocations : Return(i)

SpecParallel == Init /\ [][NextParallel]_vars

----------------------------------------------------------------------------
(* Properties of generate_multi_track *)

\* frequency > 0, duration > 0, velocity in 0..127, start_time >= 0
ValidTrack(t) ==
    /\ DOMAIN t = TrackKeys
    /\ t.frequency > 0
    /\ t.duration > 0
    /\ t.velocity \in 0..MidiMaxVelocity
    /\ t.start_time >= 0

ValidTracks(tracks) ==
    tracks # <<>> /\ \A i \in DOMAIN tracks : ValidTrack(tracks[i])

\* Sample i of the sum of the tones of tracks k, k + 1, ..., each tone laid
\* from the start sample of its track on.
RECURSIVE SumAt(_, _, _)
SumAt(tracks, i, k) ==
    IF k > Len(tracks) THEN 0
    ELSE (IF /\ StartSample(tracks[k]) < i
             /\ i <= StartSample(tracks[k]) + Len(TrackTone(tracks[k]).val)
          THEN TrackTone(tracks[k]).val[i - StartSample(tracks[k])]
          ELSE 0)
         + SumAt(tracks, i, k + 1)

UnnormalisedSum(tracks) == [i \in 1..TotalSamples(tracks) |-> SumAt(tracks, i, 1)]

\* The buffer is the sum brought within 16 bits.
MixedWithin16Bits(buffer, sum) ==
    /\ Len(buffer) = Len(sum)
    /\ \A i \in DOMAIN buffer :
          /\ -32768 <= buffer[i] /\ buffer[i] <= 32767
          /\ sum[i] > 0 => buffer[i] >= 0
          /\ sum[i] < 0 => buffer[i] <= 0
    /\ PeakAbs(sum) <= Int16Max => buffer = sum

\* C1: for a non-empty list of valid tracks, every sample of the buffer that
\* generate_multi_track returns lies in [-32768, 32767] and has the sign of
\* the sum's sample (the 16-bit cast never wraps), and when the peak of the
\* unnormalised sum is at most 32767 the buffer is that sum, sample for sample.
C1_MixInRange ==
    (op = "generate_multi_track" /\ ValidTracks(arg.tracks) /\ ret.ok) =>
        MixedWithin16Bits(ret.val, UnnormalisedSum(arg.tracks))

\* Two tracks at half velocity sounding together: the sum is louder than
\* either tone and stays within 16 bits.
C1_Witness ==
    /\ op = "generate_multi_track"
    /\ ValidTracks(arg.tracks)
    /\ ret.ok
    /\ Len(arg.tracks) = 2
    /\ arg.tracks[1].velocity = 63 /\ arg.tracks[2].velocity = 63
    /\ arg.tracks[1].start_time = arg.tracks[2].start_time
    /\ PeakAbs(UnnormalisedSum(arg.tracks)) > 16384
    /\ PeakAbs(UnnormalisedSum(arg.tracks)) <= Int16Max
    /\ ret.val = UnnormalisedSum(arg.tracks)

\* Two tracks at full velocity sounding together: the sum exceeds 16 bits
\* and the returned buffer is scaled to a peak of 32767.
C1_ScaledWitness ==
    /\ op = "generate_multi_track"
    /\ ret.ok
    /\ PeakAbs(UnnormalisedSum(arg.tracks)) > Int16Max
    /\ PeakAbs(ret.val) = Int16Max

\* The error the mixer is specified to raise on an empty track list.
EmptyInput == "EmptyInput"

\* C2 as stated: generate_multi_track of an empty track list fails with the
\* error EmptyInput and returns no buffer.
C2_AsStated ==
    (op = "generate_multi_track" /\ arg.tracks = <<>>) => ret = Raise(EmptyInput)

\* What the code does with an empty track list: max() of an empty sequence
\* raises ValueError, no file is written, process_track_input reports the
\* failure and the route answers 400.
C2_FailureSurfaced ==
    /\ (op = "generate_multi_track" /\ arg.tracks = <<>>) => ret = Raise(ValueError)
    /\ (op = "process_track_input" /\ GetTracks(arg) = <<>>)
          => ret = Failure(ValueError)
    /\ (op = "synthesize" /\ arg # <<>> /\ "tracks" \in DOMAIN arg /\ arg.tracks = <<>>)
          => ret.status = 400 /\ ret.body = Failure(ValueError)

\* C3 as stated: the buffer returned for a non-empty list of valid tracks has
\* ceil(sample_rate * max(start_time + duration)) samples.
C3_AsStated ==
    (op = "generate_multi_track" /\ ValidTracks(arg.tracks) /\ ret.ok) =>
        Len(ret.val) = Ceil(sample_rate * TotalDuration(arg.tracks), TimeDen)

\* What the code does: the product is truncated.
C3_Truncated ==
    (op = "generate_multi_track" /\ ValidTracks(arg.tracks) /\ ret.ok) =>
        /\ Len(ret.val) * TimeDen <= sample_rate * TotalDuration(arg.tracks)
        /\ sample_rate * TotalDuration(arg.tracks) < (Len(ret.val) + 1) * TimeDen

----------------------------------------------------------------------------
(* Properties of verify_frequency_accuracy *)

\* |f - e| for a whole frequency f = <<n, 1>>
Off(f, e) == Abs(f[1] - e)

\* C4: for a non-empty peak list and a non-zero expected frequency, the
\* detected frequency is a peak with the least absolute difference from the
\* expected one, the error is |detected - expected| / expected (reported as
\* a percentage), and is_accurate holds exactly when error <= tolerance, the
\* boundary included: 440 against 440 at 2% is accurate, 450 against 440 is
\* not.
C4_VerifyClosest ==
    (/\ op = "verify_peaks"
     /\ arg.peak_freqs # <<>>
     /\ arg.expected_freq # 0
     /\ \A i \in DOMAIN arg.peak_freqs : arg.peak_freqs[i][2] = 1) =>
        /\ ret.ok
        /\ \E i \in DOMAIN arg.peak_freqs :
              ret.val.detected_frequency = arg.peak_freqs[i]
        /\ \A i \in DOMAIN arg.peak_freqs :
              Off(ret.val.detected_frequency, arg.expected_freq)
                 <= Off(arg.peak_freqs[i], arg.expected_freq)
        /\ ret.val.error_percent =
              <<100 * Off(ret.val.detected_frequency, arg.expected_freq),
                arg.expected_freq>>
        /\ ret.val.is_accurate <=>
              \/ arg.expected_freq < 0       \* the error is negative or -0.0
              \/ 1000 * Off(ret.val.detected_frequency, arg.expected_freq)
                    <= arg.tolerance * arg.expected_freq
        /\ (arg.peak_freqs = <<<<440, 1>>>> /\ arg.expected_freq = 440
              /\ arg.tolerance = 20) => ret.val.is_accurate
        /\ (arg.peak_freqs = <<<<450, 1>>>> /\ arg.expected_freq = 440
              /\ arg.tolerance = 20) => ~ret.val.is_accurate

\* The boundary: of the peaks 430 and 102 the nearer to 100 is detected, its
\* error is exactly the tolerance of 2%, and it is accurate.
C4_Witness ==
    /\ op = "verify_peaks"
    /\ arg.peak_freqs = <<<<430, 1>>, <<102, 1>>>>
    /\ arg.expected_freq = 100
    /\ arg.tolerance = 20
    /\ ret.ok
    /\ ret.val.detected_frequency = <<102, 1>>
    /\ ret.val.is_accurate

\* 450 Hz detected against 440 Hz expected at 2%: not accurate.
C4_Inaccurate ==
    /\ op = "verify_peaks"
    /\ arg.peak_freqs = <<<<450, 1>>>>
    /\ arg.expected_freq = 440
    /\ arg.tolerance = 20
    /\ ret.ok
    /\ ~ret.val.is_accurate

----------------------------------------------------------------------------
(* Properties of the peak extraction of compute_fft *)

\* The magnitude at bin p
At(x, p) == x[p + 1]

\* Bin p is the middle (rounded down) of a plateau l..r inside the sequence
\* with a smaller sample on either side.
IsLocalMaximum(x, p) ==
    \E l \in 1..p : \E r \in {2 * p - l, 2 * p - l + 1} :
        /\ r <= Len(x) - 2
        /\ At(x, l) = At(x, p) /\ At(x, r) = At(x, p)
        /\ \A k \in l..r : At(x, k) = At(x, p)
        /\ At(x, l - 1) < At(x, p)
        /\ At(x, r + 1) < At(x, p)

\* The peaks a search may return: the local maxima of magnitude >= 0.1
Candidates(x) ==
    {p \in 0..(Len(x) - 1) :
        At(x, p) * PeakHeightDen >= MagScale /\ IsLocalMaximum(x, p)}

\* The candidates a scan from left to right accepts: a candidate is accepted
\* when it is at least 50 bins from the candidates accepted before it.
RECURSIVE GreedyFrom(_, _)
GreedyFrom(todo, accepted) ==
    IF todo = {} THEN accepted
    ELSE LET p == CHOOSE c \in todo : \A d \in todo : c <= d
         IN  IF \A q \in accepted : p - q >= PeakDistance
             THEN GreedyFrom(todo \ {p}, accepted \cup {p})
             ELSE GreedyFrom(todo \ {p}, accepted)

Greedy(x) == GreedyFrom(Candidates(x), {})

Descending(x, s) ==
    \A i \in 1..(Len(s) - 1) : At(x, s[i]) >= At(x, s[i + 1])

\* C5 as stated: the peaks returned are those of the candidates that a greedy
\* scan from left to right accepts, by descending magnitude, at most 10.
C5_AsStated ==
    op = "find_peaks" =>
        /\ Len(ret.val) <= TopPeaks
        /\ Descending(arg.magnitude, ret.val)
        /\ Range(ret.val) \subseteq Greedy(arg.magnitude)
        /\ \A p \in Greedy(arg.magnitude) \ Range(ret.val) :
              /\ Len(ret.val) = TopPeaks
              /\ At(arg.magnitude, p) <= At(arg.magnitude, ret.val[TopPeaks])

\* C5: the peaks returned are local maxima of magnitude >= 0.1, pairwise at
\* least 50 bins apart, in descending order of magnitude, at most 10 and
\* without repetition; the candidates are taken by descending magnitude, so
\* that a candidate is left out only for a peak at least as large that lies
\* closer than 50 bins, or because ten peaks at least as large are returned.
C5_PeaksByMagnitude ==
    op = "find_peaks" =>
        /\ Len(ret.val) <= TopPeaks
        /\ Descending(arg.magnitude, ret.val)
        /\ Range(ret.val) \subseteq Candidates(arg.magnitude)
        /\ \A i, j \in DOMAIN ret.val :
              i # j => Abs(ret.val[i] - ret.val[j]) >= PeakDistance
        /\ \A p \in Candidates(arg.magnitude) \ Range(ret.val) :
              \/ \E q \in Range(ret.val) :
                    /\ Abs(p - q) < PeakDistance
                    /\ At(arg.magnitude, q) >= At(arg.magnitude, p)
              \/ /\ Len(ret.val) = TopPeaks
                 /\ At(arg.magnitude, p) <= At(arg.magnitude, ret.val[TopPeaks])

\* Two peaks 49 bins apart, the right one the larger: the right one alone is
\* returned, where a scan from the left accepts the left one.
C5_Witness ==
    /\ op = "find_peaks"
    /\ arg.magnitude = Comb("up", 2, 49)
    /\ ret.val = <<50>>
    /\ Greedy(arg.magnitude) = {1}

\* More than ten peaks far enough apart: the ten largest are returned.
C5_Capped ==
    /\ op = "find_peaks"
    /\ Cardinality(Candidates(arg.magnitude)) > TopPeaks
    /\ Len(ret.val) = TopPeaks

----------------------------------------------------------------------------
(* Properties of compute_fft *)

\* The greatest squared magnitude of the one-sided spectrum of the samples
TopSqMag(samples) ==
    SetMax({SqMag(samples, k) : k \in 0..((Len(samples) \div 2) - 1)})

\* C6 as stated: on a non-empty buffer compute_fft returns magnitudes that
\* are all 0 when the greatest magnitude of the one-sided spectrum is 0, and
\* that lie in [0, 1] with a maximum of exactly 1 otherwise.
C6_AsStated ==
    (op = "compute_fft" /\ Len(arg.samples) >= 1) =>
        /\ ret.ok
        /\ \A k \in DOMAIN ret.val.magnitude :
              \/ IsZero(ret.val.magnitude[k])
              \/ /\ InUnitInterval(ret.val.magnitude[k])
                 /\ \E j \in DOMAIN ret.val.magnitude : IsOne(ret.val.magnitude[j])

\* What the code does: a buffer of one sample raises; a spectrum whose
\* greatest magnitude is 0 comes back as NaN throughout, with no peak; any
\* other spectrum is within [0, 1] with a maximum of 1.
C6_Unguarded ==
    (op = "compute_fft" /\ Len(arg.samples) >= 1) =>
        IF Len(arg.samples) = 1 THEN ~ret.ok
        ELSE /\ ret.ok
             /\ Len(ret.val.magnitude) = Len(arg.samples) \div 2
             /\ IF TopSqMag(arg.samples) = 0
                THEN /\ \A k \in DOMAIN ret.val.magnitude : IsNaN(ret.val.magnitude[k])
                     /\ ret.val.peak_frequencies = <<>>
                ELSE /\ \A k \in DOMAIN ret.val.magnitude :
                           InUnitInterval(ret.val.magnitude[k])
                     /\ \E k \in DOMAIN ret.val.magnitude : IsOne(ret.val.magnitude[k])

----------------------------------------------------------------------------
(* Properties of _extract_tracks and _get_dominant_frequency *)

\* Segment i of a recording, in samples: from onset i to the next onset, the
\* last one to the end of the recording.
SegStart(y, i) == y.onset_frames[i] * HopLength
SegEnd(y, i) ==
    IF i = Len(y.onset_frames) THEN y.n_samples
    ELSE y.onset_frames[i + 1] * HopLength

\* Track t is the track of segment i: it starts at the onset, lasts as long
\* as the segment and has velocity 100.
TrackOfSegment(y, t, i) ==
    /\ t.startTime = <<SegStart(y, i), y.sr>>
    /\ t.duration = <<SegEnd(y, i) - SegStart(y, i), y.sr>>
    /\ t.velocity = 100

\* C7: the segments are [onset[i], onset[i+1]) and [onset[last], D), so they
\* are contiguous and do not overlap; every emitted track starts at its
\* onset, lasts as long as its segment and has velocity 100, the tracks are in
\* onset order, and the track of a single onset at 0 spans [0, D).
C7_Segments ==
    op = "extract_tracks" =>
        /\ \E f \in [DOMAIN ret.val -> DOMAIN arg.onset_frames] :
              /\ \A k \in DOMAIN ret.val : TrackOfSegment(arg, ret.val[k], f[k])
              /\ \A k \in 1..(Len(ret.val) - 1) : f[k] < f[k + 1]
        /\ \A k \in 1..(Len(ret.val) - 1) :
              ret.val[k].startTime[1] + ret.val[k].duration[1]
                 <= ret.val[k + 1].startTime[1]
        /\ (Len(ret.val) = Len(arg.onset_frames)) =>
              \A k \in 1..(Len(ret.val) - 1) :
                 ret.val[k].startTime[1] + ret.val[k].duration[1]
                    = ret.val[k + 1].startTime[1]
        /\ (arg.onset_frames = <<0>> /\ ret.val # <<>>) =>
              /\ Len(ret.val) = 1
              /\ ret.val[1].startTime = <<0, arg.sr>>
              /\ ret.val[1].duration = <<arg.n_samples, arg.sr>>

\* Two onsets, a track for each: the first lasts to the second onset, the
\* second to the end of the recording.
C7_Witness ==
    /\ op = "extract_tracks"
    /\ arg.onset_frames = <<0, 2>>
    /\ arg.n_samples = 2 * HopLength + 900
    /\ Len(ret.val) = 2
    /\ ret.val[1].duration[1] = 2 * HopLength
    /\ ret.val[2].startTime[1] = 2 * HopLength
    /\ ret.val[2].duration[1] = 900

\* A single onset at 0 with a track: one segment, the whole recording.
C7_SingleOnset ==
    /\ op = "extract_tracks"
    /\ arg.onset_frames = <<0>>
    /\ arg.n_samples = 900
    /\ Len(ret.val) = 1

\* C8 as stated: every emitted track has a frequency in (50, 2000] Hz.
C8_AsStated ==
    op = "extract_tracks" =>
        \A k \in DOMAIN ret.val :
            /\ ret.val[k].frequency[1] > MinFrequency * ret.val[k].frequency[2]
            /\ ret.val[k].frequency[1] <= MaxFrequency * ret.val[k].frequency[2]

\* What the code does: the frequency of an emitted track is sr / lag for a
\* whole lag with sr // 2000 <= lag < sr // 50, which is above 50 Hz and may
\* exceed 2000 Hz; a segment of fewer than 2 samples emits no track.
C8_LagRange ==
    op = "extract_tracks" =>
        /\ \A k \in DOMAIN ret.val :
              /\ ret.val[k].frequency[1] = arg.sr
              /\ ret.val[k].frequency[2] >= arg.sr \div MaxFrequency
              /\ ret.val[k].frequency[2] < arg.sr \div MinFrequency
              /\ ret.val[k].frequency[2] > 0
        /\ (Len(arg.onset_frames) = 1 /\ arg.n_samples - SegStart(arg, 1) < 2)
              => ret.val = <<>>

----------------------------------------------------------------------------
(* Properties of generate_sine_wave *)

\* C9 as stated: generate_sine_wave returns no buffer when the frequency, the
\* duration or the sample rate is not positive, and a buffer of
\* round(sample_rate * duration) samples otherwise.
C9_AsStated ==
    op = "generate_sine_wave" =>
        IF arg.frequency <= 0 \/ arg.duration <= 0 \/ sample_rate <= 0
        THEN ~ret.ok
        ELSE ret.ok /\ Len(ret.val) = Round(sample_rate * arg.duration, TimeDen)

\* What the code does: nothing is validated; the call fails only for a
\* negative number of samples, and returns int(sample_rate * duration)
\* samples otherwise.
C9_Unvalidated ==
    op = "generate_sine_wave" =>
        IF sample_rate * arg.duration <= -TimeDen
        THEN ~ret.ok
        ELSE ret.ok /\ Len(ret.val) = PyInt(sample_rate * arg.duration, TimeDen)

----------------------------------------------------------------------------
(* The round trip from the extractor to the generator *)

\* C10 as stated: every track the extractor emits has exactly the fields
\* frequency, duration, velocity and start_time, and generate_multi_track of a
\* non-empty extractor output returns a buffer.
C10_AsStated ==
    (op = "resynthesize" /\ arg.tracks # <<>>) =>
        /\ \A k \in DOMAIN arg.tracks : DOMAIN arg.tracks[k] = TrackKeys
        /\ ret.ok

\* What the code does: the extractor names the start of a track startTime,
\* and generate_multi_track raises KeyError on every non-empty output.
C10_KeyError ==
    (op = "resynthesize" /\ arg.tracks # <<>>) =>
        /\ \A k \in DOMAIN arg.tracks :
              DOMAIN arg.tracks[k] = {"frequency", "duration", "velocity", "startTime"}
        /\ ret = Raise(KeyError)

----------------------------------------------------------------------------
(* Properties of process_track_input under parallel requests *)

AllDone == \A i \in Invocations : inflight[i].pc = "done"

Succeeded(i) == inflight[i].pc = "done" /\ inflight[i].result.success

\* C11 as stated: no two calls choose the same file name, and once all calls
\* have finished the file named by each successful result holds the samples
\* generated for that call.
C11_AsStated ==
    /\ \A i, j \in Invocations :
          (i # j /\ inflight[i].filename >= 0 /\ inflight[j].filename >= 0)
             => inflight[i].filename # inflight[j].filename
    /\ AllDone =>
          \A i \in Invocations :
             Succeeded(i) =>
                /\ inflight[i].result.wav_file \in DOMAIN output_dir
                /\ output_dir[inflight[i].result.wav_file] = inflight[i].samples

\* What the code does: a call names its file by the number of files it finds,
\* so the file a successful result names exists and holds the samples of a
\* call that chose that name, not necessarily its own; two calls that both
\* read the directory before either writes choose the same name.
C11_NamedFileExists ==
    /\ \A i \in Invocations :
          inflight[i].filename >= 0 => inflight[i].filename <= Cardinality(DOMAIN output_dir)
    /\ \A i \in Invocations :
          Succeeded(i) =>
             /\ inflight[i].result.wav_file \in DOMAIN output_dir
             /\ \E j \in Invocations :
                   /\ inflight[j].filename = inflight[i].result.wav_file
                   /\ output_dir[inflight[i].result.wav_file] = inflight[j].samples

\* Two calls have finished with success, both results name output_0.wav, and
\* the file holds the samples of the second call only.
C11_Overwritten ==
    /\ AllDone
    /\ Succeeded(1) /\ Succeeded(2)
    /\ inflight[1].result.wav_file = inflight[2].result.wav_file
    /\ inflight[1].samples # inflight[2].samples
    /\ output_dir[inflight[1].result.wav_file] = inflight[2].samples

=============================================================================
